---- MODULE Spec2Model ----
(***************************************************************************)
(* Kronos trader: the thread-safe StateManager (trader/state_manager.py).  *)
(* Python dicts are functions over a set of string keys, deques are        *)
(* sequences, threads are the elements of Threads, each with a position    *)
(* pc[t] inside the method it is running.                                  *)
(***************************************************************************)
EXTENDS Integers, Sequences, FiniteSets, TLC

\* ------------------------------------------------------------------ bounds
\* max_history of the store under test (the code's default is 1000).
MaxHistory == 2
\* number of calls (update_state, load_state, get_*) made in one behaviour.
MaxEvents == 3
\* longest list of trading actions the advice holds.
MaxIntents == 2

\* ------------------------------------------------------------- basic values
Threads == {"t1", "t2"}
NoThread == "none"
\* None as a timestamp; datetime.now() is modelled by clock >= 1.
NoTime == 0
\* state_data.get("type") of a payload without the key.
NoType == "<none>"

EmptyDict == [k \in {} |-> 0]

\* dict.update(delta)
DictUpdate(d, delta) ==
  [k \in (DOMAIN d) \cup (DOMAIN delta) |-> IF k \in DOMAIN delta THEN delta[k] ELSE d[k]]

\* d.get(key, default)
DictGet(d, key, default) == IF key \in DOMAIN d THEN d[key] ELSE default

Min(a, b) == IF a <= b THEN a ELSE b
Max(a, b) == IF a >= b THEN a ELSE b

RECURSIVE Gcd(_, _)
Gcd(a, b) == IF b = 0 THEN a ELSE Gcd(b, a % b)

\* a / b of two numbers, b > 0, as a fraction in lowest terms.
Ratio(a, b) ==
  LET n == IF a < 0 THEN -a ELSE a
      g == Gcd(n, b)
  IN  [num |-> a \div g, den |-> b \div g]

Zero == [num |-> 0, den |-> 1]

\* deque(maxlen=MaxHistory).append(x): a full deque drops its oldest entry.
DequePlain(q, x) == Append(q, x)
DequeDropNewest(q, x) == IF Len(q) >= MaxHistory THEN q ELSE Append(q, x)
DequeEvictNewest(q, x) ==
  IF Len(q) >= MaxHistory THEN Append(SubSeq(q, 1, Len(q) - 1), x) ELSE Append(q, x)
DequeAppend(q, x) ==
  IF MaxHistory = 0 THEN << >>
  ELSE IF Len(q) >= MaxHistory THEN Append(Tail(q), x)
  ELSE Append(q, x)

\* deque(items, maxlen=MaxHistory): the last MaxHistory items.
DequeOf(items) ==
  IF Len(items) <= MaxHistory THEN items
  ELSE SubSeq(items, Len(items) - MaxHistory + 1, Len(items))

\* ---------------------------------------------------------------- payloads
\* One entry of a positions payload: a mapping, or some other value.
Info(v) == [mapping |-> TRUE, d |-> [usd_value |-> v]]
NotAMapping == [mapping |-> FALSE, d |-> EmptyDict]

PositionInputs ==
  { EmptyDict,
    [BTC |-> Info(700), USDT |-> Info(300)],
    [BTC |-> Info(300)],
    [BTC |-> NotAMapping] }

\* volume_usdt of a trade payload: a number, or a value that cannot be added.
Num(v) == [addable |-> TRUE, v |-> v]
NotAddable == [addable |-> FALSE, v |-> 0]

\* trade payloads; n is the ordinal of the trade among the trades issued.
TradeInputs(n) ==
  { [n |-> n, status |-> "success", volume_usdt |-> Num(100)],
    [n |-> n, status |-> "failed"],
    [n |-> n, status |-> "success", volume_usdt |-> NotAddable] }

\* log payloads; the message names the thread that writes it.
LogInputs(n, t) == { [n |-> n, message |-> t, level |-> "info"] }

StatusInputs == { [is_running |-> TRUE], [total_runs |-> 1] }

PredictionInputs == { [BTCUSDT |-> 1] }

PerformanceInputs == { [current_balance |-> 1000], [total_trades |-> 5] }

RiskInputs == { [total_value |-> 5] }

KnownTypes ==
  { "system_status", "positions", "predictions", "trade_execution",
    "strategy_log", "performance", "risk_metrics" }

\* payloads whose type is not one of the seven kinds, or is missing.
OtherInputs == { [type |-> "bogus", data |-> EmptyDict], [data |-> EmptyDict] }

\* --------------------------------------------------------------- the store
InitSystemStatus ==
  [ is_running |-> FALSE, last_update |-> NoTime, last_strategy_run |-> NoTime,
    next_strategy_run |-> NoTime, simulation_mode |-> TRUE,
    error_count |-> 0, total_runs |-> 0 ]

InitPerformanceStats ==
  [ total_trades |-> 0, successful_trades |-> 0, failed_trades |-> 0,
    total_profit_loss |-> 0, total_volume |-> 0, start_balance |-> 0,
    current_balance |-> 0 ]

InitRiskMetrics ==
  [ total_exposure |-> Zero, max_single_position |-> 0, position_count |-> 0,
    usdt_reserve |-> 0, total_value |-> 0 ]

\* info.get("usd_value", 0.0)
UsdValue(info) == DictGet(info.d, "usd_value", 0)

RECURSIVE SumUsd(_, _)
SumUsd(p, S) ==
  IF S = {} THEN 0
  ELSE LET a == CHOOSE x \in S : TRUE IN UsdValue(p[a]) + SumUsd(p, S \ {a})

RECURSIVE MaxUsd(_, _)
MaxUsd(p, S) ==
  IF S = {} THEN 0
  ELSE LET a == CHOOSE x \in S : TRUE IN Max(UsdValue(p[a]), MaxUsd(p, S \ {a}))

\* info.get raises AttributeError on an entry that is not a mapping.
CalcRaises(p) == \E a \in DOMAIN p : ~p[a].mapping

\* The loop and the final dict of _calculate_risk_metrics, for a payload on
\* which it does not raise.
RiskOf(p) ==
  LET total_value == SumUsd(p, DOMAIN p)
      usdt_reserve == IF "USDT" \in DOMAIN p THEN UsdValue(p["USDT"]) ELSE 0
      others == (DOMAIN p) \ {"USDT"}
  IN  [ total_exposure |->
          IF total_value > 0 THEN Ratio(total_value - usdt_reserve, total_value) ELSE Zero,
        max_single_position |-> MaxUsd(p, others),
        position_count |-> Cardinality(others),
        usdt_reserve |-> usdt_reserve,
        total_value |-> total_value ]

\* _calculate_risk_metrics: the risk metrics it leaves, given the stored ones.
CalcSkips(p) == p = EmptyDict
_calculate_risk_metrics(p, risk) ==
  IF CalcSkips(p) THEN risk ELSE DictUpdate(risk, RiskOf(p))

\* -------------------------------------------------- whole-call semantics
\* A store value: the seven fields, the clock read by datetime.now(), and
\* whether the call raised.
TradeRecord(now, trade_data) == DictUpdate([timestamp |-> now], trade_data)

StatusKey(trade_data) ==
  IF DictGet(trade_data, "status", "") = "success" THEN "successful_trades" ELSE "failed_trades"

HasVolume(trade_data) == "volume_usdt" \in DOMAIN trade_data

\* _record_trade as one step: the append, the three counters, a TypeError on
\* a volume that cannot be added (raised after the earlier statements ran).
Whole_record_trade(s, trade_data) ==
  LET s1 == [s EXCEPT !.trading_history = DequeAppend(@, TradeRecord(s.clock, trade_data)),
                      !.clock = @ + 1]
      p1 == DictUpdate(s1.performance_stats,
                       [total_trades |-> s1.performance_stats["total_trades"] + 1])
      k  == StatusKey(trade_data)
      p2 == [p1 EXCEPT ![k] = @ + 1]
      s2 == [s1 EXCEPT !.performance_stats = p2]
  IN  IF ~HasVolume(trade_data) THEN s2
      ELSE IF ~trade_data["volume_usdt"].addable THEN [s2 EXCEPT !.raised = TRUE]
      ELSE [s2 EXCEPT !.performance_stats =
                        [p2 EXCEPT !["total_volume"] = @ + trade_data["volume_usdt"].v]]

\* _update_positions as one step.
Whole_update_positions(s, data) ==
  LET s1 == [s EXCEPT !.positions = data]
  IN  IF CalcRaises(data) THEN [s1 EXCEPT !.raised = TRUE]
      ELSE [s1 EXCEPT !.risk_metrics = _calculate_risk_metrics(data, @)]

\* state_data.get("type"), state_data.get("data", {})
TypeOf(state_data) == DictGet(state_data, "type", NoType)
DataOf(state_data) == DictGet(state_data, "data", EmptyDict)

\* The if/elif chain of update_state as one step.
WholeDispatch(s, state_data) ==
  LET ty == TypeOf(state_data)
      data == DataOf(state_data)
  IN  CASE ty = "system_status" -> [s EXCEPT !.system_status = DictUpdate(@, data)]
        [] ty = "positions" -> Whole_update_positions(s, data)
        [] ty = "predictions" -> [s EXCEPT !.predictions = data]
        [] ty = "trade_execution" -> Whole_record_trade(s, data)
        [] ty = "strategy_log" ->
             [s EXCEPT !.strategy_logs = DequeAppend(@, TradeRecord(s.clock, data)),
                       !.clock = @ + 1]
        [] ty = "performance" -> [s EXCEPT !.performance_stats = DictUpdate(@, data)]
        [] ty = "risk_metrics" -> [s EXCEPT !.risk_metrics = DictUpdate(@, data)]
        [] OTHER -> s

\* update_state run alone, start to end.
Whole_update_state(s, state_data) ==
  LET s1 == WholeDispatch([s EXCEPT !.raised = FALSE], state_data)
  IN  IF s1.raised THEN s1
      ELSE [s1 EXCEPT !.system_status = DictUpdate(@, [last_update |-> s1.clock]),
                      !.clock = @ + 1]

\* Files that are no persisted state: text that is no JSON (json.load raises
\* JSONDecodeError), a JSON array at the top level (state_data.get raises
\* AttributeError).
Unparsable == [k \in {"<not json>"} |-> TRUE]
NotAnObject == [k \in {"<json array>"} |-> TRUE]
LoadRejects(doc) == doc \in {Unparsable, NotAnObject}

\* A JSON number where the array of a history is expected: deque(5,
\* maxlen=...) raises TypeError.
NotASequence == << [not_iterable |-> TRUE] >>
DequeRaises(doc, key) == DictGet(doc, key, << >>) = NotASequence

\* load_state run alone on a file that exists.
Whole_load_state(s, doc) ==
  LET s5 == [s EXCEPT !.raised = FALSE,
                      !.system_status = DictGet(doc, "system_status", @),
                      !.positions = DictGet(doc, "positions", EmptyDict),
                      !.predictions = DictGet(doc, "predictions", EmptyDict),
                      !.performance_stats = DictGet(doc, "performance_stats", @),
                      !.risk_metrics = DictGet(doc, "risk_metrics", @)]
      s6 == [s5 EXCEPT !.trading_history = DequeOf(DictGet(doc, "trading_history", << >>))]
  IN  IF LoadRejects(doc) THEN [s EXCEPT !.raised = TRUE]
      ELSE IF DequeRaises(doc, "trading_history") THEN [s5 EXCEPT !.raised = TRUE]
      ELSE IF DequeRaises(doc, "strategy_logs") THEN [s6 EXCEPT !.raised = TRUE]
      ELSE [s6 EXCEPT !.strategy_logs = DequeOf(DictGet(doc, "strategy_logs", << >>))]

\* ------------------------------------------------------------------- state
VARIABLES
  system_status, positions, predictions, trading_history, strategy_logs,
  performance_stats, risk_metrics,   \* the fields of the StateManager
  lock,        \* the thread inside `with self.lock`, or NoThread
  clock,       \* the value the next datetime.now() returns
  pc,          \* pc[t]: where thread t is in the method it runs
  cur,         \* cur[t]: the argument of the call thread t is in
  tmp,         \* tmp[t]: the operand read by a `+=` before it is stored back
  callId,      \* callId[t]: ordinal of t's call among the calls made
  pre,         \* pre[t]: the store when t's call took the lock
  issued,      \* update_state and load_state calls made so far
  tradesIssued, logsIssued,  \* update_state calls of the two log kinds so far
  appended,    \* appends made by _record_trade so far
  loads,       \* load_state calls so far
  posUpdates,  \* update_state calls of type positions that have returned
  overridden,  \* a payload or document has set total_trades
  partial,     \* calls whose mutation has started and not run to its end
  observed,    \* calls an accessor has read in the middle of their mutation
  last,        \* how the call that ended last ended, no other call started since
  pushed,      \* the payloads that call posted to the WebUI, in order
  serial,      \* the store had every call so far run alone, in lock order
  heap,        \* the dict objects of the process, by identity: heap[id]
  payload,     \* id of the positions dict the writer built last
  stored,      \* id of the dict self.positions refers to
  held,        \* id of the dict a reader got from get_positions()
  seen,        \* what that dict held when the reader got it
  file,        \* the document save_state wrote last, or NoFile
  restored,    \* the fields of a new StateManager that loaded it, or NoPre
  trading_actions,  \* trading_advice['trading_actions']
  usdt_balance,     \* the USDT balance read at line 247
  scale_factor,     \* the factor of line 259 or 261, a fraction in lowest terms
  idx,              \* 0 before the loop of line 263, then the action it is at
  orders,           \* the calls of _execute_buy_order / _execute_sell_order made
  placed,           \* those of them that went on to place_market_order
  returned,         \* what an accessor called without a limit returned
  dash,             \* the dashboard process: POSTs made, waiting and applied
  single,           \* get_state_manager: the global, the instances made and returned
  run,              \* run_hourly_strategy: where it is, the runs ended, what the run met
  walk,             \* _execute_trading_decisions on dicts: where it is, the order calls made
  api               \* ChatGPTClient: self.retry_delay, the attempts and waits of the call of _call_api

storeVars ==
  << system_status, positions, predictions, trading_history, strategy_logs,
     performance_stats, risk_metrics >>
threadVars == << pc, cur, tmp, callId, pre >>
historyVars ==
  << issued, tradesIssued, logsIssued, appended, loads, posUpdates,
     overridden, partial, observed, last, pushed, serial >>
\* objects and references
aliasVars == << heap, payload, stored, held, seen >>
\* what the calls of the threads into the StateManager leave alone
\* _execute_trading_decisions
sizingVars == << trading_actions, usdt_balance, scale_factor, idx, orders, placed >>
\* the accessors without a limit, the dashboard
restVars == << returned, dash, single, run, walk, api >>
apartVars == << aliasVars, file, restored, sizingVars, restVars >>
vars == << storeVars, lock, clock, threadVars, historyVars, apartVars >>

\* The store as one value.
StoreNow ==
  [ system_status |-> system_status, positions |-> positions,
    predictions |-> predictions, trading_history |-> trading_history,
    strategy_logs |-> strategy_logs, performance_stats |-> performance_stats,
    risk_metrics |-> risk_metrics ]

StoreOf(s) ==
  [ system_status |-> s.system_status, positions |-> s.positions,
    predictions |-> s.predictions, trading_history |-> s.trading_history,
    strategy_logs |-> s.strategy_logs, performance_stats |-> s.performance_stats,
    risk_metrics |-> s.risk_metrics ]

NoCall == [type |-> "-"]
NoPre == [none |-> TRUE]
NoLast == [result |-> "-", outcome |-> "-"]
\* no object
NoRef == 0
\* no file at the path
NoFile == [k \in {"<no file>"} |-> TRUE]
\* no accessor has returned
NoReturn == [call |-> "-", value |-> << >>]
\* _global_state_manager = None (line 302), no call of get_state_manager yet
NoInstance ==
  [global |-> NoRef, made |-> 0, calls |-> 0, local |-> [t \in Threads |-> NoRef],
   given |-> {}]
\* _execute_trading_decisions has not been called with advice as the model gives it
NoWalk == [at |-> "idle", intents |-> << >>, i |-> 0, scale |-> [num |-> 1, den |-> 1],
           bound |-> FALSE, placements |-> << >>]
\* chatgpt_client.py lines 25-26
max_retries == 3
retry_delay == 2
\* the ChatGPTClient after __init__: no call of _call_api yet
NoApi == [retry_delay |-> retry_delay, at |-> "idle", attempt |-> 0, calls |-> 0,
          requests |-> 0, waits |-> << >>, result |-> "-"]
\* run_hourly_strategy has not been called
NoRun == [at |-> "idle", cycles |-> 0, before |-> << 0, 0 >>, step_raised |-> FALSE,
          escaped |-> FALSE]
\* no update_state call made yet, nothing received by the dashboard
NoTraffic == [calls |-> 0, posts |-> 0, inbox |-> << >>, applied |-> 0]

\* the fields other than the two logs
FieldsInit ==
  /\ system_status = InitSystemStatus
  /\ positions = EmptyDict
  /\ predictions = EmptyDict
  /\ performance_stats = InitPerformanceStats
  /\ risk_metrics = InitRiskMetrics
  /\ lock = NoThread
  /\ clock = 1
  /\ pc = [t \in Threads |-> "idle"]
  /\ cur = [t \in Threads |-> NoCall]
  /\ tmp = [t \in Threads |-> 0]
  /\ callId = [t \in Threads |-> 0]
  /\ pre = [t \in Threads |-> NoPre]
  /\ issued = 0
  /\ tradesIssued = 0
  /\ logsIssued = 0
  /\ appended = 0
  /\ loads = 0
  /\ posUpdates = 0
  /\ overridden = FALSE
  /\ partial = {}
  /\ observed = {}
  /\ last = NoLast
  /\ pushed = << >>
  /\ serial = [ system_status |-> InitSystemStatus, positions |-> EmptyDict,
                predictions |-> EmptyDict, trading_history |-> << >>,
                strategy_logs |-> << >>, performance_stats |-> InitPerformanceStats,
                risk_metrics |-> InitRiskMetrics, clock |-> 1, raised |-> FALSE ]
  /\ heap = << EmptyDict >>
  /\ payload = NoRef
  /\ stored = 1
  /\ held = NoRef
  /\ seen = EmptyDict
  /\ file = NoFile
  /\ restored = NoPre
  /\ returned = NoReturn
  /\ dash = NoTraffic
  /\ single = NoInstance
  /\ run = NoRun
  /\ walk = NoWalk
  /\ api = NoApi

StoreInit ==
  /\ FieldsInit
  /\ trading_history = << >>
  /\ strategy_logs = << >>

\* no advice has been given
Init ==
  /\ StoreInit
  /\ trading_actions = << >>
  /\ usdt_balance = 0
  /\ scale_factor = Ratio(1, 1)
  /\ idx = 0
  /\ orders = << >>
  /\ placed = << >>

\* -------------------------------------------------------------- the RLock
\* threading.RLock: free, or already held by the same thread.
CanAcquireAlways(t) == TRUE
CanAcquire(t) == lock \in {NoThread, t}

Goto(t, label) == pc' = [pc EXCEPT ![t] = label]
At(t, label) == pc[t] = label
Data(t) == DataOf(cur[t])

\* ------------------------------------------------------------ update_state
\* Thread t enters `with self.lock` of update_state(state_data).
enter_update_state(t, state_data) ==
  /\ issued < MaxEvents
  /\ CanAcquire(t)
  /\ lock' = t
  /\ Goto(t, "dispatch")
  /\ cur' = [cur EXCEPT ![t] = state_data]
  /\ pre' = [pre EXCEPT ![t] = StoreNow]
  /\ callId' = [callId EXCEPT ![t] = issued + 1]
  /\ issued' = issued + 1
  /\ tradesIssued' = tradesIssued + (IF TypeOf(state_data) = "trade_execution" THEN 1 ELSE 0)
  /\ logsIssued' = logsIssued + (IF TypeOf(state_data) = "strategy_log" THEN 1 ELSE 0)
  /\ overridden' = (overridden \/ (TypeOf(state_data) = "performance"
                                   /\ "total_trades" \in DOMAIN DataOf(state_data)))
  /\ serial' = Whole_update_state(serial, state_data)
  /\ last' = NoLast
  /\ pushed' = << >>
  /\ UNCHANGED << storeVars, clock, tmp, appended, loads, posUpdates, partial, observed,
                  apartVars >>

\* Thread t calls update_state(state_data).
update_state(t, state_data) == At(t, "idle") /\ enter_update_state(t, state_data)

\* What a step inside a call leaves alone.
Inside ==
  UNCHANGED << lock, cur, callId, pre, issued, tradesIssued, logsIssued,
               loads, posUpdates, overridden, observed, last, pushed, serial,
               apartVars >>

\* the status replaced by the delta over the initial fields
_update_system_status_replacing(t) ==
  /\ At(t, "dispatch") /\ TypeOf(cur[t]) = "system_status"
  /\ system_status' = DictUpdate(InitSystemStatus, Data(t))
  /\ Goto(t, "stamp")
  /\ Inside
  /\ UNCHANGED << positions, predictions, trading_history, strategy_logs,
                  performance_stats, risk_metrics, clock, tmp, appended, partial >>

\* self.system_status.update(data), line 117
_update_system_status(t) ==
  /\ At(t, "dispatch") /\ TypeOf(cur[t]) = "system_status"
  /\ system_status' = DictUpdate(system_status, Data(t))
  /\ Goto(t, "stamp")
  /\ Inside
  /\ UNCHANGED << positions, predictions, trading_history, strategy_logs,
                  performance_stats, risk_metrics, clock, tmp, appended, partial >>

\* self.positions = data, line 121
_update_positions(t) ==
  /\ At(t, "dispatch") /\ TypeOf(cur[t]) = "positions"
  /\ positions' = Data(t)
  /\ partial' = partial \cup {callId[t]}
  /\ Goto(t, "calc")
  /\ Inside
  /\ UNCHANGED << system_status, predictions, trading_history, strategy_logs,
                  performance_stats, risk_metrics, clock, tmp, appended >>

\* the call of _calculate_risk_metrics, line 124
calculate(t) ==
  /\ At(t, "calc")
  /\ IF CalcRaises(positions)
       THEN /\ Goto(t, "unwind")
            /\ UNCHANGED << risk_metrics, partial >>
       ELSE /\ risk_metrics' = _calculate_risk_metrics(positions, risk_metrics)
            /\ partial' = partial \ {callId[t]}
            /\ Goto(t, "stamp")
  /\ Inside
  /\ UNCHANGED << system_status, positions, predictions, trading_history,
                  strategy_logs, performance_stats, clock, tmp, appended >>

_update_predictions(t) ==
  /\ At(t, "dispatch") /\ TypeOf(cur[t]) = "predictions"
  /\ predictions' = Data(t)
  /\ Goto(t, "stamp")
  /\ Inside
  /\ UNCHANGED << system_status, positions, trading_history, strategy_logs,
                  performance_stats, risk_metrics, clock, tmp, appended, partial >>

\* lines 132-136: the record is built and appended
_record_trade(t) ==
  /\ At(t, "dispatch") /\ TypeOf(cur[t]) = "trade_execution"
  /\ trading_history' = DequeAppend(trading_history, TradeRecord(clock, Data(t)))
  /\ clock' = clock + 1
  /\ appended' = appended + 1
  /\ partial' = partial \cup {callId[t]}
  /\ Goto(t, "total_read")
  /\ Inside
  /\ UNCHANGED << system_status, positions, predictions, strategy_logs,
                  performance_stats, risk_metrics, tmp >>

\* The key a `+=` of _record_trade works on, and what it adds, by position.
CounterKey(t) ==
  CASE pc[t] \in {"total_read", "total_write"} -> "total_trades"
    [] pc[t] \in {"status_read", "status_write"} -> StatusKey(Data(t))
    [] OTHER -> "total_volume"

\* total_trades recounted from the history instead of incremented
CounterStepRecount(t) ==
  IF pc[t] \in {"volume_read", "volume_write"} THEN Data(t)["volume_usdt"].v
  ELSE IF pc[t] \in {"total_read", "total_write"} THEN Len(trading_history) - tmp[t]
  ELSE 1

CounterStep(t) ==
  IF pc[t] \in {"volume_read", "volume_write"} THEN Data(t)["volume_usdt"].v ELSE 1

\* the read half of `self.performance_stats[key] += x`, lines 139-146
counter_read(t) ==
  /\ pc[t] \in {"total_read", "status_read", "volume_read"}
  /\ IF At(t, "volume_read") /\ ~Data(t)["volume_usdt"].addable
       THEN /\ Goto(t, "unwind")
            /\ UNCHANGED tmp
       ELSE /\ tmp' = [tmp EXCEPT ![t] = performance_stats[CounterKey(t)]]
            /\ Goto(t, CASE At(t, "total_read") -> "total_write"
                         [] At(t, "status_read") -> "status_write"
                         [] OTHER -> "volume_write")
  /\ Inside
  /\ UNCHANGED << storeVars, clock, appended, partial >>

\* the store half of the `+=`
counter_write(t) ==
  /\ pc[t] \in {"total_write", "status_write", "volume_write"}
  /\ performance_stats' =
       DictUpdate(performance_stats, [k \in {CounterKey(t)} |-> tmp[t] + CounterStep(t)])
  /\ tmp' = [tmp EXCEPT ![t] = 0]
  /\ LET done == At(t, "volume_write") \/ (At(t, "status_write") /\ ~HasVolume(Data(t)))
     IN  /\ partial' = IF done THEN partial \ {callId[t]} ELSE partial
         /\ Goto(t, CASE At(t, "total_write") -> "status_read"
                      [] At(t, "status_write") /\ HasVolume(Data(t)) -> "volume_read"
                      [] OTHER -> "stamp")
  /\ Inside
  /\ UNCHANGED << system_status, positions, predictions, trading_history,
                  strategy_logs, risk_metrics, clock, appended >>

_add_strategy_log(t) ==
  /\ At(t, "dispatch") /\ TypeOf(cur[t]) = "strategy_log"
  /\ strategy_logs' = DequeAppend(strategy_logs, TradeRecord(clock, Data(t)))
  /\ clock' = clock + 1
  /\ Goto(t, "stamp")
  /\ Inside
  /\ UNCHANGED << system_status, positions, predictions, trading_history,
                  performance_stats, risk_metrics, tmp, appended, partial >>

_update_performance(t) ==
  /\ At(t, "dispatch") /\ TypeOf(cur[t]) = "performance"
  /\ performance_stats' = DictUpdate(performance_stats, Data(t))
  /\ Goto(t, "stamp")
  /\ Inside
  /\ UNCHANGED << system_status, positions, predictions, trading_history,
                  strategy_logs, risk_metrics, clock, tmp, appended, partial >>

_update_risk_metrics(t) ==
  /\ At(t, "dispatch") /\ TypeOf(cur[t]) = "risk_metrics"
  /\ risk_metrics' = DictUpdate(risk_metrics, Data(t))
  /\ Goto(t, "stamp")
  /\ Inside
  /\ UNCHANGED << system_status, positions, predictions, trading_history,
                  strategy_logs, performance_stats, clock, tmp, appended, partial >>

\* no branch of the if/elif chain matches: nothing is done, line 109 is next
no_branch(t) ==
  /\ At(t, "dispatch") /\ TypeOf(cur[t]) \notin KnownTypes
  /\ Goto(t, "stamp")
  /\ Inside
  /\ UNCHANGED << storeVars, clock, tmp, appended, partial >>

\* self.system_status["last_update"] = datetime.now().isoformat(), line 110
stamp(t) ==
  /\ At(t, "stamp")
  /\ system_status' = DictUpdate(system_status, [last_update |-> clock])
  /\ clock' = clock + 1
  /\ Goto(t, "push")
  /\ Inside
  /\ UNCHANGED << positions, predictions, trading_history, strategy_logs,
                  performance_stats, risk_metrics, tmp, appended, partial >>

\* ---------------------------------------------------------- _push_to_webui
\* How requests.post can end: a response with a status code, or an exception
\* of requests.exceptions (ConnectionError and Timeout are RequestExceptions).
Responses == {"200", "500"}
RequestExceptions == {"ConnectionError", "Timeout"}
PushOutcomes == Responses \cup RequestExceptions

\* _push_to_webui returns normally: a response of any status is only logged,
\* a RequestException is caught.
PushReturnsOn200(o) == o = "200"
PushReturns(o) == o \in Responses \/ o \in RequestExceptions

\* The requests.post calls one run of _push_to_webui makes, by the json body
\* each sends: one call, with the argument of update_state as its body,
\* whatever way it ends.
PostsWithRetry(state_data, o) ==
  IF o = "200" THEN << state_data >> ELSE << state_data, state_data >>
PostsData(state_data, o) == << DataOf(state_data) >>
Posts(state_data, o) == << state_data >>

\* The thread's locals when its call is over.
CallOver(t) ==
  /\ Goto(t, "idle")
  /\ cur' = [cur EXCEPT ![t] = NoCall]
  /\ tmp' = [tmp EXCEPT ![t] = 0]
  /\ callId' = [callId EXCEPT ![t] = 0]
  /\ pre' = [pre EXCEPT ![t] = NoPre]

\* self._push_to_webui(state_data), line 113, is called inside `with
\* self.lock`; requests.post ends with outcome o, and the block is left: the
\* lock is released and the call returns, or the exception reaches the caller.
_push_to_webui(t, o) ==
  /\ At(t, "push")
  /\ lock' = NoThread
  /\ last' = [result |-> IF PushReturns(o) THEN "returned" ELSE "raised", outcome |-> o]
  /\ pushed' = Posts(cur[t], o)
  /\ posUpdates' = posUpdates +
       (IF TypeOf(cur[t]) = "positions" /\ PushReturns(o) THEN 1 ELSE 0)
  /\ CallOver(t)
  /\ UNCHANGED << storeVars, clock, issued, tradesIssued, logsIssued, appended,
                  loads, overridden, partial, observed, serial, apartVars >>

\* the `with self.lock` block of load_state is left normally: the lock is
\* released and the call returns
release(t) ==
  /\ At(t, "exit")
  /\ lock' = NoThread
  /\ last' = [result |-> "returned", outcome |-> "-"]
  /\ CallOver(t)
  /\ UNCHANGED << storeVars, clock, issued, tradesIssued, logsIssued, appended,
                  loads, posUpdates, overridden, partial, observed, pushed, serial,
                  apartVars >>

\* an exception leaves the `with self.lock` block: the lock is released and
\* the exception reaches the caller
unwind(t) ==
  /\ At(t, "unwind")
  /\ lock' = NoThread
  /\ last' = [result |-> "raised", outcome |-> "-"]
  /\ CallOver(t)
  /\ UNCHANGED << storeVars, clock, issued, tradesIssued, logsIssued, appended,
                  loads, posUpdates, overridden, partial, observed, pushed, serial,
                  apartVars >>

\* --------------------------------------------------------------- accessors
\* history[-limit:] if limit else history
TailSliceOldest(history, limit) ==
  IF limit = 0 THEN history ELSE SubSeq(history, 1, Min(limit, Len(history)))
TailSlice(history, limit) ==
  IF limit = 0 THEN history
  ELSE LET len == Len(history)
           from == IF limit > 0 THEN Max(len - limit, 0) ELSE Min(-limit, len)
       IN  SubSeq(history, from + 1, len)

get_system_status == system_status
get_positions == positions
get_predictions == predictions
get_trading_history(limit) == TailSlice(trading_history, limit)
get_strategy_logs(limit) == TailSlice(strategy_logs, limit)
get_performance_stats == performance_stats
get_risk_metrics == risk_metrics

\* Thread t calls one of the accessors: `with self.lock: return copy`. What
\* it returns is the accessor's value in the state it is called in.
get(t) ==
  /\ At(t, "idle")
  /\ CanAcquire(t)
  /\ observed' = observed \cup partial
  /\ UNCHANGED << storeVars, lock, clock, threadVars, issued, tradesIssued,
                  logsIssued, appended, loads, posUpdates, overridden,
                  partial, last, pushed, serial, apartVars >>

\* -------------------------------------------------------------- load_state
FileTrades ==
  [i \in 1..(MaxHistory + 1) |-> [timestamp |-> NoTime, n |-> i, status |-> "failed"]]
FileLogs ==
  [i \in 1..(MaxHistory + 1) |-> [timestamp |-> NoTime, n |-> i, message |-> "m",
                                  level |-> "info"]]

\* persisted documents: all keys, no key, only risk_metrics
LoadDocs ==
  { [ system_status |-> [InitSystemStatus EXCEPT !.total_runs = 7],
      positions |-> [BTC |-> Info(300)],
      predictions |-> [BTCUSDT |-> 1],
      trading_history |-> FileTrades,
      strategy_logs |-> FileLogs,
      performance_stats |-> [InitPerformanceStats EXCEPT !.total_trades = 9],
      risk_metrics |-> RiskOf([BTC |-> Info(300)]) ],
    EmptyDict,
    [ risk_metrics |-> [InitRiskMetrics EXCEPT !.total_value = 9] ] }

\* Thread t calls load_state on a file that exists, and enters `with self.lock`.
load_state(t, doc) ==
  /\ At(t, "idle")
  /\ issued < MaxEvents
  /\ CanAcquire(t)
  /\ lock' = t
  /\ Goto(t, "load")
  /\ cur' = [cur EXCEPT ![t] = [type |-> "load_state", data |-> doc]]
  /\ pre' = [pre EXCEPT ![t] = StoreNow]
  /\ callId' = [callId EXCEPT ![t] = issued + 1]
  /\ issued' = issued + 1
  /\ loads' = loads + 1
  /\ overridden' = (overridden \/ "performance_stats" \in DOMAIN doc)
  /\ serial' = Whole_load_state(serial, doc)
  /\ last' = NoLast
  /\ pushed' = << >>
  /\ UNCHANGED << storeVars, clock, tmp, tradesIssued, logsIssued,
                  appended, posUpdates, partial, observed, apartVars >>

\* lines 284-298; an exception leaves the fields assigned before it as they are
load_fields(t) ==
  /\ At(t, "load")
  /\ LET doc == Data(t) IN
       IF LoadRejects(doc)
         THEN /\ UNCHANGED storeVars
              /\ Goto(t, "unwind")
         ELSE /\ system_status' = DictGet(doc, "system_status", system_status)
              /\ positions' = DictGet(doc, "positions", EmptyDict)
              /\ predictions' = DictGet(doc, "predictions", EmptyDict)
              /\ performance_stats' = DictGet(doc, "performance_stats", performance_stats)
              /\ risk_metrics' = DictGet(doc, "risk_metrics", risk_metrics)
              /\ IF DequeRaises(doc, "trading_history")
                   THEN /\ UNCHANGED << trading_history, strategy_logs >>
                        /\ Goto(t, "unwind")
                   ELSE /\ trading_history' = DequeOf(DictGet(doc, "trading_history", << >>))
                        /\ IF DequeRaises(doc, "strategy_logs")
                             THEN /\ UNCHANGED strategy_logs
                                  /\ Goto(t, "unwind")
                             ELSE /\ strategy_logs' = DequeOf(DictGet(doc, "strategy_logs", << >>))
                                  /\ Goto(t, "exit")
  /\ Inside
  /\ UNCHANGED << clock, tmp, appended, partial >>

\* files that load_state must reject
BadDocs ==
  { Unparsable, NotAnObject,
    [ system_status |-> [InitSystemStatus EXCEPT !.total_runs = 7],
      positions |-> [BTC |-> Info(300)],
      trading_history |-> NotASequence ] }

\* -------------------------------------------------------------- save_state
\* the dict save_state builds and json.dump writes, lines 258-267
SaveDocNoTrades(s, now) ==
  [ system_status |-> s.system_status, positions |-> s.positions,
    predictions |-> s.predictions, strategy_logs |-> s.strategy_logs,
    performance_stats |-> s.performance_stats, risk_metrics |-> s.risk_metrics,
    saved_at |-> now ]
SaveDoc(s, now) ==
  [ system_status |-> s.system_status, positions |-> s.positions,
    predictions |-> s.predictions, trading_history |-> s.trading_history,
    strategy_logs |-> s.strategy_logs, performance_stats |-> s.performance_stats,
    risk_metrics |-> s.risk_metrics, saved_at |-> now ]

\* Thread t calls save_state: the document is built and written inside
\* `with self.lock`.
save_state(t) ==
  /\ At(t, "idle")
  /\ issued < MaxEvents
  /\ CanAcquire(t)
  /\ file' = SaveDoc(StoreNow, clock)
  /\ clock' = clock + 1
  /\ serial' = [serial EXCEPT !.clock = @ + 1]
  /\ issued' = issued + 1
  /\ last' = [result |-> "saved", outcome |-> "-"]
  /\ pushed' = << >>
  /\ restored' = NoPre
  /\ UNCHANGED << storeVars, lock, threadVars, tradesIssued, logsIssued, appended,
                  loads, posUpdates, overridden, partial, observed, aliasVars,
                  sizingVars, restVars >>

\* A StateManager as __init__ leaves it.
FreshStore ==
  [ system_status |-> InitSystemStatus, positions |-> EmptyDict,
    predictions |-> EmptyDict, trading_history |-> << >>,
    strategy_logs |-> << >>, performance_stats |-> InitPerformanceStats,
    risk_metrics |-> InitRiskMetrics, clock |-> 1, raised |-> FALSE ]

\* Right after save_state, a new StateManager loads the document written.
restore_fresh ==
  /\ last.result = "saved"
  /\ restored = NoPre
  /\ restored' = StoreOf(Whole_load_state(FreshStore, file))
  /\ UNCHANGED << storeVars, lock, clock, threadVars, historyVars, aliasVars, restVars,
                  file,
                  sizingVars, restVars >>

\* load_state on a path that does not exist returns at line 281, before the
\* lock is taken
load_missing(t) ==
  /\ At(t, "idle")
  /\ UNCHANGED vars

\* the argument of update_state
Payload(type, data) == [type |-> type, data |-> data]

\* ------------------------------------------------- run_hourly_strategy
\* main_strategy.py lines 121 and 130: the argument
\* self.state_manager.system_status.get(key, 0) + 1 is evaluated by the
\* strategy thread on the store's field itself, before update_state is
\* called; no lock is taken for it.
CounterKeys == {"total_runs", "error_count"}

read_counter(t, key) ==
  /\ At(t, "idle")
  /\ issued < MaxEvents
  /\ tmp' = [tmp EXCEPT ![t] = DictGet(system_status, key, 0) + 1]
  /\ cur' = [cur EXCEPT ![t] = [type |-> "run_hourly_strategy", key |-> key]]
  /\ Goto(t, "counted")
  /\ UNCHANGED << storeVars, lock, clock, callId, pre, historyVars, apartVars >>

\* self._update_system_status(total_runs=<the value read> + 1)
counted_update(t) ==
  /\ At(t, "counted")
  /\ enter_update_state(t, Payload("system_status", [k \in {cur[t].key} |-> tmp[t]]))

\* ---------------------------------------------------- objects by identity
\* The positions payload and what the store and a reader hold of it, as
\* Python holds them: by reference. A positions dict is an object whose
\* entries refer to one dict object per asset.
AssetValues == {300, 700}

\* the value of the positions dict with identity id
Deep(h, id) == [a \in DOMAIN h[id] |-> h[h[id][a]]]

\* the fields and the clock become those of the store value s
Becomes(s) ==
  /\ system_status' = s.system_status
  /\ positions' = s.positions
  /\ predictions' = s.predictions
  /\ trading_history' = s.trading_history
  /\ strategy_logs' = s.strategy_logs
  /\ performance_stats' = s.performance_stats
  /\ risk_metrics' = s.risk_metrics
  /\ clock' = s.clock

\* the writer builds {"BTC": {"usd_value": v}}: two new objects
build_payload(v) ==
  /\ Len(heap) + 2 <= 2 * MaxEvents
  /\ heap' = heap \o << Info(v), [BTC |-> Len(heap) + 1] >>
  /\ payload' = Len(heap) + 2
  /\ UNCHANGED << storeVars, lock, clock, threadVars, historyVars, stored, held, seen,
                  file, restored, sizingVars, restVars >>

\* update_state({"type": "positions", "data": payload}) from start to end,
\* the delivery ending with o: self.positions = data (line 121) makes the
\* field refer to the writer's own object
update_positions_by_ref(o) ==
  /\ payload # NoRef
  /\ issued < MaxEvents
  /\ LET sd == Payload("positions", Deep(heap, payload)) IN
       /\ Becomes(Whole_update_state(StoreNow @@ [clock |-> clock, raised |-> FALSE], sd))
       /\ serial' = Whole_update_state(serial, sd)
       /\ pushed' = Posts(sd, o)
  /\ stored' = payload
  /\ issued' = issued + 1
  /\ posUpdates' = posUpdates + 1
  /\ last' = [result |-> "returned", outcome |-> o]
  /\ UNCHANGED << lock, threadVars, tradesIssued, logsIssued, appended, loads,
                  overridden, partial, observed, heap, payload, held, seen,
                  file, restored, sizingVars, restVars >>

\* get_positions(): self.positions.copy() (line 221) is a new dict whose
\* entries are the very objects the stored dict refers to
get_positions_copy ==
  /\ Len(heap) + 1 <= 2 * MaxEvents
  /\ heap' = Append(heap, heap[stored])
  /\ held' = Len(heap) + 1
  /\ seen' = Deep(heap, stored)
  /\ UNCHANGED << storeVars, lock, clock, threadVars, historyVars, payload, stored,
                  file, restored, sizingVars, restVars >>

\* the writer assigns payload[a]["usd_value"] = v on the dict it built; the
\* store's positions change with it if they are that dict
mutate_payload(a, v) ==
  /\ payload # NoRef
  /\ heap' = [heap EXCEPT ![heap[payload][a]] = Info(v)]
  /\ positions' = Deep(heap', stored)
  /\ UNCHANGED << system_status, predictions, trading_history, strategy_logs,
                  performance_stats, risk_metrics, lock, clock, threadVars,
                  historyVars, payload, stored, held, seen, file, restored,
                  sizingVars, restVars >>

\* ------------------------------------------------------ get_state_manager
\* line 308: `if _global_state_manager is None`
test_global(t) ==
  /\ At(t, "idle")
  /\ single.calls < 2 * MaxEvents
  /\ single' = [single EXCEPT !.calls = @ + 1]
  /\ Goto(t, IF single.global = NoRef THEN "construct" ELSE "give")
  /\ UNCHANGED << storeVars, lock, clock, cur, tmp, callId, pre, historyVars, aliasVars,
                  file, restored, sizingVars, returned, dash, run, walk, api >>

\* line 309, right-hand side: StateManager() makes a new instance
construct(t) ==
  /\ At(t, "construct")
  /\ single' = [single EXCEPT !.made = @ + 1, !.local[t] = single.made + 1]
  /\ Goto(t, "assign")
  /\ UNCHANGED << storeVars, lock, clock, cur, tmp, callId, pre, historyVars, aliasVars,
                  file, restored, sizingVars, returned, dash, run, walk, api >>

\* line 309, the store into the global: no second look at it, no lock
assign_global(t) ==
  /\ At(t, "assign")
  /\ single' = [single EXCEPT !.global = single.local[t], !.local[t] = NoRef]
  /\ Goto(t, "give")
  /\ UNCHANGED << storeVars, lock, clock, cur, tmp, callId, pre, historyVars, aliasVars,
                  file, restored, sizingVars, returned, dash, run, walk, api >>

\* line 310: `return _global_state_manager`
give(t) ==
  /\ At(t, "give")
  /\ single' = [single EXCEPT !.given = @ \cup {single.global}]
  /\ Goto(t, "idle")
  /\ UNCHANGED << storeVars, lock, clock, cur, tmp, callId, pre, historyVars, aliasVars,
                  file, restored, sizingVars, returned, dash, run, walk, api >>

\* ------------------------------------------------- the dashboard process
\* The store variables are those of the StateManager of webui_server.py line
\* 45, built with the default webui_url like the strategy's own (line 32):
\* the URL of the dashboard itself.

\* a POST ending with o got to the endpoint /api/update-state: a response
\* came from it; a request that timed out may or may not have got there
Reached(o, late) == o \in Responses \/ (o = "Timeout" /\ late)

\* the strategy calls update_state on its own StateManager, whose
\* _push_to_webui makes one POST
strategy_update(state_data, o, late) ==
  /\ dash.calls < MaxEvents
  /\ dash' = [dash EXCEPT !.calls = @ + 1, !.posts = @ + 1,
                          !.inbox = IF Reached(o, late) THEN Append(@, state_data) ELSE @]
  /\ UNCHANGED << storeVars, lock, clock, threadVars, historyVars, aliasVars, file,
                  restored, sizingVars, returned, single, run, walk, api >>

\* webui_server.py lines 150-171: the endpoint calls update_state on the
\* dashboard's StateManager, which applies the event, stamps and, unless the
\* event raised, makes one POST of the same event to webui_url
dashboard_receive(o, late) ==
  /\ dash.inbox # << >>
  /\ dash.posts < 2 * MaxEvents
  /\ LET state_data == Head(dash.inbox)
         s == Whole_update_state(StoreNow @@ [clock |-> clock, raised |-> FALSE], state_data)
     IN  /\ Becomes(s)
         /\ dash' = [dash EXCEPT
                       !.applied = @ + 1,
                       !.posts = IF s.raised THEN @ ELSE @ + 1,
                       !.inbox = IF ~s.raised /\ Reached(o, late)
                                 THEN Append(Tail(@), state_data) ELSE Tail(@)]
  /\ UNCHANGED << lock, threadVars, historyVars, aliasVars, file, restored,
                  sizingVars, returned, single, run, walk, api >>

\* ------------------------------------------ accessors called without a limit
\* state_manager.py lines 22, 228 and 234
max_history == 1000
default_trade_limit == 50
default_log_limit == 100

\* a log of n entries, numbered in the order they were appended
LogOf(n) == [i \in 1..n |-> [n |-> i]]

\* get_trading_history() and get_strategy_logs(): limit takes its default
get_trading_history_default ==
  /\ returned' = [call |-> "get_trading_history",
                  value |-> get_trading_history(default_trade_limit)]
  /\ UNCHANGED << storeVars, lock, clock, threadVars, historyVars, aliasVars, file,
                  restored, sizingVars, dash, single, run, walk, api >>

get_strategy_logs_default ==
  /\ returned' = [call |-> "get_strategy_logs",
                  value |-> get_strategy_logs(default_log_limit)]
  /\ UNCHANGED << storeVars, lock, clock, threadVars, historyVars, aliasVars, file,
                  restored, sizingVars, dash, single, run, walk, api >>

\* ------------------------------------------- positions maps of every shape
\* an entry without the key usd_value
NoUsdValue == [mapping |-> TRUE, d |-> EmptyDict]
RiskEntries == {Info(0), Info(300), Info(700), NoUsdValue}
RiskAssets == {"BTC", "ETH", "USDT"}
RiskMaps == UNION { [S -> RiskEntries] : S \in SUBSET RiskAssets }

\* update_state({"type": "positions", "data": p}) from start to end, the
\* delivery ending with o
update_positions_whole(p, o) ==
  /\ issued < MaxEvents
  /\ LET sd == Payload("positions", p) IN
       /\ Becomes(Whole_update_state(StoreNow @@ [clock |-> clock, raised |-> FALSE], sd))
       /\ serial' = Whole_update_state(serial, sd)
       /\ pushed' = Posts(sd, o)
  /\ issued' = issued + 1
  /\ posUpdates' = posUpdates + 1
  /\ last' = [result |-> "returned", outcome |-> o]
  /\ UNCHANGED << lock, threadVars, tradesIssued, logsIssued, appended, loads,
                  overridden, partial, observed, apartVars >>

\* --------------------------------------------- _execute_trading_decisions
\* main_strategy.py lines 67-68
min_trade_amount == 50
max_single_trade == 500

ActionTypes == {"BUY", "SELL", "HOLD"}
Quantities == {-60, 0, 40, 60, 100, 500, 600, 700}
Balances == {0, 100, 800, 1000}

\* The lists of trading actions of at most MaxIntents entries; the symbol of
\* an action is its position in the list.
AdviceLists ==
  UNION { { [i \in 1..n |-> [symbol |-> i, action |-> f[i][1], quantity_usdt |-> f[i][2]]]
              : f \in [1..n -> ActionTypes \X Quantities] } : n \in 0..MaxIntents }

\* lines 251-255: the sum over the BUY actions of positive quantity
RECURSIVE total_buy_amount(_)
total_buy_amount(actions) ==
  IF Len(actions) = 0 THEN 0
  ELSE LET a == Head(actions) IN
         (IF a.action = "BUY" /\ a.quantity_usdt > 0 THEN a.quantity_usdt ELSE 0)
           + total_buy_amount(Tail(actions))

\* lines 257-261: usdt_balance / total_buy_amount * 0.95, or 1.0
ScaleNever(balance, total) == Ratio(1, 1)
ScaleNoMargin(balance, total) ==
  IF total > balance THEN Ratio(balance, total) ELSE Ratio(1, 1)
Scale(balance, total) ==
  IF total > balance THEN Ratio(balance * 19, total * 20) ELSE Ratio(1, 1)

\* lines 242-261: an empty list returns at once; else the balance is read and
\* the factor computed
compute_scale ==
  /\ idx = 0
  /\ scale_factor' = IF Len(trading_actions) = 0 THEN scale_factor
                     ELSE Scale(usdt_balance, total_buy_amount(trading_actions))
  /\ idx' = 1
  /\ UNCHANGED << storeVars, lock, clock, threadVars, historyVars, aliasVars, restVars,
                  file,
                  restored, trading_actions, usdt_balance, orders, placed >>

\* lines 274-281: HOLD, a zero quantity and a requested quantity below the
\* minimum are skipped
SkipsBelowMinimum(action) == action.quantity_usdt < min_trade_amount
Skips(action) ==
  \/ action.action = "HOLD" \/ action.quantity_usdt = 0
  \/ action.quantity_usdt < min_trade_amount

\* lines 284-289: the quantity passed on, in units of 1/scale.den USDT: a BUY
\* is multiplied by the factor, then the maximum is applied
SizedNoMax(action, scale) ==
  IF action.action = "BUY" THEN action.quantity_usdt * scale.num
  ELSE action.quantity_usdt * scale.den
SizedAll(action, scale) ==
  Min(action.quantity_usdt * scale.num, max_single_trade * scale.den)
Sized(action, scale) ==
  LET scaled == IF action.action = "BUY" THEN action.quantity_usdt * scale.num
                ELSE action.quantity_usdt * scale.den
  IN  Min(scaled, max_single_trade * scale.den)

\* _execute_buy_order, lines 304-323: the balance is read again and the call
\* returns when it is below the amount; get_current_price may raise.
\* _execute_sell_order, lines 362-383: the call returns when nothing of the
\* asset is held or the quantity rounds to nothing.
GoesToMarket(order, den, balance, ok) ==
  IF order.action = "BUY" THEN ok /\ ~(balance * den < order.quantity_usdt)
  ELSE ok

\* the loop taken from the last action to the first
process_action_backwards ==
  /\ idx \in 1..Len(trading_actions)
  /\ LET action == trading_actions[Len(trading_actions) + 1 - idx]
         order == [symbol |-> action.symbol, action |-> action.action,
                   quantity_usdt |-> Sized(action, scale_factor)]
     IN  IF Skips(action) THEN UNCHANGED << orders, placed >>
         ELSE /\ orders' = Append(orders, order)
              /\ \E balance \in Balances, ok \in BOOLEAN :
                   placed' = IF GoesToMarket(order, scale_factor.den, balance, ok)
                             THEN Append(placed, order) ELSE placed
  /\ idx' = idx + 1
  /\ UNCHANGED << storeVars, lock, clock, threadVars, historyVars, aliasVars, restVars,
                  file,
                  restored, trading_actions, usdt_balance, scale_factor >>

\* lines 263-298: one pass of the loop, the call of _execute_buy_order or
\* _execute_sell_order included
process_action ==
  /\ idx \in 1..Len(trading_actions)
  /\ LET action == trading_actions[idx]
         order == [symbol |-> action.symbol, action |-> action.action,
                   quantity_usdt |-> Sized(action, scale_factor)]
     IN  IF Skips(action) THEN UNCHANGED << orders, placed >>
         ELSE /\ orders' = Append(orders, order)
              /\ \E balance \in Balances, ok \in BOOLEAN :
                   placed' = IF GoesToMarket(order, scale_factor.den, balance, ok)
                             THEN Append(placed, order) ELSE placed
  /\ idx' = idx + 1
  /\ UNCHANGED << storeVars, lock, clock, threadVars, historyVars, aliasVars, restVars,
                  file,
                  restored, trading_actions, usdt_balance, scale_factor >>

\* ------------------------------------------------------ run_hourly_strategy
\* main_strategy.py lines 76-133. The strategy process calls it from one
\* thread, one run after the other (lines 474 and 547).

\* a store value and the call made next: nothing more is called once a call
\* has raised
Then(s, state_data) == IF s.raised THEN s ELSE Whole_update_state(s, state_data)
Store0 == StoreNow @@ [clock |-> clock, raised |-> FALSE]

\* the wrappers of lines 486-491 and 519-527
StatusUpdate(d) == Payload("system_status", d)
Log(message, level) == Payload("strategy_log", [message |-> message, level |-> level])

\* system_status.get(key, 0) + 1 as the keyword argument key (lines 121, 130)
IncrementedBoth(status, key) == [k \in CounterKeys |-> DictGet(status, k, 0) + 1]
Incremented(status, key) == [k \in {key} |-> DictGet(status, key, 0) + 1]

\* the statement of the try block after the one at `at`
AfterStep(at) ==
  CASE at = "predictions" -> "positions"
    [] at = "positions" -> "advice"
    [] at = "advice" -> "trading"
    [] at = "trading" -> "count"

\* where the run goes from a statement of the try block
Onward(s, raised, next) == IF s.raised \/ raised THEN "except" ELSE next

\* lines 79-86: last_strategy_run is set and the start of the run logged
begin_run ==
  /\ run.at = "idle"
  /\ run.cycles < MaxEvents
  /\ LET s == Then(Then(Store0, StatusUpdate([last_strategy_run |-> clock])),
                   Log("run started", "info"))
     IN  /\ Becomes(s)
         /\ run' = [run EXCEPT !.at = Onward(s, FALSE, "predictions"),
                               !.before = << system_status["total_runs"],
                                             system_status["error_count"] >>,
                               !.step_raised = s.raised]
  /\ UNCHANGED << lock, threadVars, historyVars, aliasVars, file, restored,
                  sizingVars, returned, dash, single, walk, api >>

\* lines 88-117: a step logs, calls the component, which returns or raises,
\* and stores what it returned: the predictions (line 92), the positions
\* (line 102)
run_step(raises, p) ==
  /\ run.at \in {"predictions", "positions", "advice", "trading"}
  /\ LET logged == Then(Store0, Log(run.at, "info"))
         s == IF raises THEN logged
              ELSE CASE run.at = "predictions" ->
                          Then(logged, Payload("predictions", [BTCUSDT |-> 1]))
                     [] run.at = "positions" -> Then(logged, Payload("positions", p))
                     [] OTHER -> logged
     IN  /\ Becomes(s)
         /\ run' = [run EXCEPT !.at = Onward(s, raises, AfterStep(run.at)),
                               !.step_raised = s.raised \/ raises]
  /\ UNCHANGED << lock, threadVars, historyVars, aliasVars, file, restored,
                  sizingVars, returned, dash, single, walk, api >>

\* lines 121-124: total_runs is counted and the end of the run logged
count_run ==
  /\ run.at = "count"
  /\ LET s == Then(Then(Store0, StatusUpdate(Incremented(system_status, "total_runs"))),
                   Log("run completed", "success"))
     IN  /\ Becomes(s)
         /\ run' = [run EXCEPT !.at = Onward(s, FALSE, "idle"),
                               !.cycles = IF s.raised THEN @ ELSE @ + 1,
                               !.step_raised = s.raised]
  /\ UNCHANGED << lock, threadVars, historyVars, aliasVars, file, restored,
                  sizingVars, returned, dash, single, walk, api >>

\* lines 126-133: the handler logs the error and counts it; what one of its
\* own calls raises goes to the caller
handle_exception ==
  /\ run.at = "except"
  /\ LET s == Then(Then(Store0, Log("run failed", "error")),
                   StatusUpdate(Incremented(system_status, "error_count")))
     IN  /\ Becomes(s)
         /\ run' = [run EXCEPT !.at = "idle", !.cycles = @ + 1, !.escaped = s.raised]
  /\ UNCHANGED << lock, threadVars, historyVars, aliasVars, file, restored,
                  sizingVars, returned, dash, single, walk, api >>

\* ------------------------------------ _execute_trading_decisions on dicts
\* A trading action as the advice gives it: a dict, of which a key may be
\* missing. `has` is the set of its keys; the value of a missing key is
\* never read.
IntentKeys == {"symbol", "action", "quantity_usdt", "confidence"}
Shapes == {IntentKeys} \cup {IntentKeys \ {k} : k \in IntentKeys}
Intents(i) ==
  { [symbol |-> i, action |-> a, quantity_usdt |-> q, has |-> h]
      : a \in {"BUY", "SELL"}, q \in {40, 600}, h \in Shapes }
IntentLists ==
  UNION { { f \in [1..n -> UNION {Intents(i) : i \in 1..n}] : \A i \in 1..n : f[i].symbol = i }
            : n \in 1..MaxIntents }

\* lines 251-255: the generator reads action['action'] of every entry and
\* action['quantity_usdt'] of every BUY: a KeyError on a missing key
SumRaises(actions) ==
  \E i \in 1..Len(actions) :
    \/ "action" \notin actions[i].has
    \/ actions[i].action = "BUY" /\ "quantity_usdt" \notin actions[i].has

\* lines 242-261, outside any try: what the sum raises leaves the function
size_intents(actions, balance) ==
  /\ walk.at = "idle"
  /\ walk' = IF SumRaises(actions)
             THEN [walk EXCEPT !.at = "raised", !.intents = actions]
             ELSE [walk EXCEPT !.at = "loop", !.intents = actions, !.i = 1,
                               !.scale = Scale(balance, total_buy_amount(actions))]
  /\ UNCHANGED << storeVars, lock, clock, threadVars, historyVars, aliasVars, file,
                  restored, sizingVars, returned, dash, single, run, api >>

\* how place_market_order ends (binance_client.py lines 92-109): the order,
\* None on a BinanceAPIException, or any other exception of the client
PlaceOutcomes == {"order", "None", "raises"}

\* _record_trade (lines 507-517) with the dict of lines 327-349
Recorded(s, order, status) ==
  Then(Then(s, Payload("trade_execution",
                       [symbol |-> order.symbol, action |-> order.action,
                        volume_usdt |-> Num(order.quantity_usdt), status |-> status])),
       Log("trade", IF status = "success" THEN "success" ELSE "error"))

\* _execute_buy_order / _execute_sell_order (lines 300-416): the store after
\* the call, which returns in every case
Executed(s, order, den, balance, ok, placing) ==
  IF ~GoesToMarket(order, den, balance, ok) THEN
    IF order.action = "BUY" /\ balance * den < order.quantity_usdt THEN s
    ELSE Then(s, Log("order error", "error"))
  ELSE CASE placing = "order" -> Recorded(s, order, "success")
         [] placing = "None" -> Recorded(s, order, "failed")
         [] placing = "raises" -> Then(s, Log("order error", "error"))

\* lines 263-298: one pass of the loop on the dict at walk.i. The keys are
\* read in the order symbol, action, quantity_usdt, confidence; the handler
\* of line 297 formats symbol and action_type, which are unbound when no
\* pass has assigned them yet.
walk_intent(balance, ok, placing) ==
  /\ walk.at = "loop"
  /\ LET action == walk.intents[walk.i]
         order == [symbol |-> action.symbol, action |-> action.action,
                   quantity_usdt |-> Sized(action, walk.scale)]
         after == IF walk.i = Len(walk.intents) THEN "returned" ELSE "loop"
         goes == GoesToMarket(order, walk.scale.den, balance, ok)
     IN  IF "symbol" \notin action.has THEN
           /\ walk' = [walk EXCEPT !.at = IF walk.bound THEN after ELSE "raised",
                                   !.i = @ + 1]
           /\ UNCHANGED << storeVars, clock >>
         ELSE IF action.has # IntentKeys \/ Skips(action) THEN
           /\ walk' = [walk EXCEPT !.at = after, !.i = @ + 1, !.bound = TRUE]
           /\ UNCHANGED << storeVars, clock >>
         ELSE
           /\ Becomes(Executed(Store0, order, walk.scale.den, balance, ok, placing))
           /\ walk' = [walk EXCEPT
                         !.at = after, !.i = @ + 1, !.bound = TRUE,
                         !.placements =
                            IF goes THEN Append(@, [order |-> order, balance |-> balance,
                                                    placing |-> placing])
                            ELSE @]
  /\ UNCHANGED << lock, threadVars, historyVars, aliasVars, file, restored,
                  sizingVars, returned, dash, single, run, api >>

\* --------------------------------------------------- ChatGPTClient._call_api
\* chatgpt_client.py lines 219-272. How requests.post ends: a response with
\* a status code, or a RequestException. The body of a 200 holds
\* choices[0].message.content, or it does not and line 253 raises KeyError.
HttpOutcomes == {"200", "200 without choices", "500", "RequestException"}

\* lines 219-242: a call starts with attempt 0 of range(self.max_retries)
call_api ==
  /\ api.at = "idle"
  /\ api.calls < 2 * MaxEvents
  /\ api' = [api EXCEPT !.at = "attempt", !.attempt = 0, !.calls = @ + 1,
                        !.requests = 0, !.waits = << >>, !.result = "-"]
  /\ UNCHANGED << storeVars, lock, clock, threadVars, historyVars, aliasVars, file,
                  restored, sizingVars, returned, dash, single, run, walk >>

\* lines 243-270: one pass of the loop. A 200 returns the content, or the
\* KeyError leaves the call; any other end of the request is logged, and unless this was the last attempt the
\* call sleeps self.retry_delay seconds and doubles self.retry_delay.
\* Line 272: None after the last attempt.
attempt_request(o) ==
  /\ api.at = "attempt"
  /\ api' =
       IF o = "200"
       THEN [api EXCEPT !.at = "idle", !.requests = @ + 1, !.result = "content"]
       ELSE IF o = "200 without choices"
       THEN [api EXCEPT !.at = "idle", !.requests = @ + 1, !.result = "raised"]
       ELSE IF api.attempt < max_retries - 1
       THEN [api EXCEPT !.attempt = @ + 1, !.requests = @ + 1,
                        !.waits = Append(@, api.retry_delay),
                        !.retry_delay = @ * 2]
       ELSE [api EXCEPT !.at = "idle", !.requests = @ + 1, !.result = "None"]
  /\ UNCHANGED << storeVars, lock, clock, threadVars, historyVars, aliasVars, file,
                  restored, sizingVars, returned, dash, single, run, walk >>

\* ------------------------------------------------------------ specification
Next ==
  \E t \in Threads :
    \/ \E d \in StatusInputs : update_state(t, Payload("system_status", d))
    \/ \E d \in PositionInputs : update_state(t, Payload("positions", d))
    \/ \E d \in PredictionInputs : update_state(t, Payload("predictions", d))
    \/ \E d \in TradeInputs(tradesIssued + 1) : update_state(t, Payload("trade_execution", d))
    \/ \E d \in LogInputs(logsIssued + 1, t) : update_state(t, Payload("strategy_log", d))
    \/ \E d \in PerformanceInputs : update_state(t, Payload("performance", d))
    \/ \E d \in RiskInputs : update_state(t, Payload("risk_metrics", d))
    \/ \E sd \in OtherInputs : update_state(t, sd)
    \/ _update_system_status(t)
    \/ _update_positions(t)
    \/ calculate(t)
    \/ _update_predictions(t)
    \/ _record_trade(t)
    \/ counter_read(t)
    \/ counter_write(t)
    \/ _add_strategy_log(t)
    \/ _update_performance(t)
    \/ _update_risk_metrics(t)
    \/ no_branch(t)
    \/ stamp(t)
    \/ \E o \in PushOutcomes : _push_to_webui(t, o)
    \/ release(t)
    \/ unwind(t)
    \/ get(t)
    \/ \E doc \in LoadDocs : load_state(t, doc)
    \/ load_fields(t)
    \/ load_missing(t)

Spec == Init /\ [][Next]_vars

\* The strategy loop counting its runs and errors, next to other callers of
\* the store.
NextLoop ==
  \E t \in Threads :
    \/ \E key \in CounterKeys : read_counter(t, key)
    \/ counted_update(t)
    \/ \E d \in StatusInputs : update_state(t, Payload("system_status", d))
    \/ _update_system_status(t)
    \/ stamp(t)
    \/ \E o \in PushOutcomes : _push_to_webui(t, o)
    \/ get(t)

SpecLoop == Init /\ [][NextLoop]_vars

\* A writer that keeps the payload it passed, and a reader that keeps what
\* get_positions() returned.
NextAlias ==
  \/ \E v \in AssetValues : build_payload(v)
  \/ \E o \in PushOutcomes : update_positions_by_ref(o)
  \/ get_positions_copy
  \/ \E v \in AssetValues : mutate_payload("BTC", v)

SpecAlias == Init /\ [][NextAlias]_vars

\* save_state and load_state next to update_state calls of two threads.
NextPersist ==
  \/ \E t \in Threads :
        \/ \E d \in TradeInputs(tradesIssued + 1) : update_state(t, Payload("trade_execution", d))
        \/ update_state(t, Payload("positions", [BTC |-> Info(300)]))
        \/ _update_positions(t)
        \/ calculate(t)
        \/ _record_trade(t)
        \/ counter_read(t)
        \/ counter_write(t)
        \/ stamp(t)
        \/ \E o \in PushOutcomes : _push_to_webui(t, o)
        \/ unwind(t)
        \/ save_state(t)
        \/ file # NoFile /\ load_state(t, file)
        \/ \E doc \in BadDocs : load_state(t, doc)
        \/ load_fields(t)
        \/ release(t)
  \/ restore_fresh

SpecPersist == Init /\ [][NextPersist]_vars

\* Positions updates, one after another, with maps of every shape.
NextRisk == \E p \in RiskMaps, o \in PushOutcomes : update_positions_whole(p, o)

SpecRisk == Init /\ [][NextRisk]_vars

\* The accessors without a limit, on a store of the default capacity whose
\* logs hold up to MaxHistory entries more than the default limits.
InitLimit ==
  /\ FieldsInit
  /\ trading_history \in
       {LogOf(n) : n \in 0..Min(max_history, default_trade_limit + MaxHistory)}
  /\ strategy_logs \in
       {LogOf(n) : n \in 0..Min(max_history, default_log_limit + MaxHistory)}
  /\ trading_actions = << >>
  /\ usdt_balance = 0
  /\ scale_factor = Ratio(1, 1)
  /\ idx = 0
  /\ orders = << >>
  /\ placed = << >>

NextLimit == get_trading_history_default \/ get_strategy_logs_default

SpecLimit == InitLimit /\ [][NextLimit]_vars

\* get_state_manager called by the threads of one process.
NextSingle ==
  \E t \in Threads : test_global(t) \/ construct(t) \/ assign_global(t) \/ give(t)

SpecSingle == Init /\ [][NextSingle]_vars

\* The strategy's update_state calls and the dashboard's endpoint.
NextForward ==
  \E o \in PushOutcomes, late \in BOOLEAN :
    \/ \E d \in TradeInputs(dash.calls + 1) :
         strategy_update(Payload("trade_execution", d), o, late)
    \/ \E d \in StatusInputs : strategy_update(Payload("system_status", d), o, late)
    \/ dashboard_receive(o, late)

SpecForward == Init /\ [][NextForward]_vars

\* The runs of the strategy, one after the other.
NextCycle ==
  \/ begin_run
  \/ \E raises \in BOOLEAN, p \in PositionInputs : run_step(raises, p)
  \/ count_run
  \/ handle_exception

SpecCycle == Init /\ [][NextCycle]_vars

\* One call of _execute_trading_decisions on a list of dicts.
NextIntents ==
  \/ \E actions \in IntentLists, balance \in Balances : size_intents(actions, balance)
  \/ \E balance \in Balances, ok \in BOOLEAN, placing \in PlaceOutcomes :
       walk_intent(balance, ok, placing)

SpecIntents == Init /\ [][NextIntents]_vars

\* The calls of _call_api on one ChatGPTClient, one after the other.
NextApi == call_api \/ \E o \in HttpOutcomes : attempt_request(o)

SpecApi == Init /\ [][NextApi]_vars

\* _execute_trading_decisions on every advice list and balance.
InitSizing ==
  /\ StoreInit
  /\ trading_actions \in AdviceLists
  /\ usdt_balance \in Balances
  /\ scale_factor = Ratio(1, 1)
  /\ idx = 0
  /\ orders = << >>
  /\ placed = << >>

NextSizing == compute_scale \/ process_action

SpecSizing == InitSizing /\ [][NextSizing]_vars

\* ------------------------------------------------------------------ claims
\* No thread is inside a call.
Quiescent == lock = NoThread /\ \A t \in Threads : At(t, "idle")

\* Thread t's update_state call ends in this step.
Ends(t) == pc[t] \notin {"idle", "load", "exit"} /\ pc'[t] = "idle"

\* C1: after every update_state call of type positions that returns, the empty
\* map included, get_risk_metrics() equals the recomputation of the five
\* metrics from the positions map of that call.
C1_RiskFollowsPositions ==
  [][\A t \in Threads :
       (Ends(t) /\ TypeOf(cur[t]) = "positions" /\ last'.result = "returned")
         => get_risk_metrics' = RiskOf(Data(t))]_vars

\* C2: the notifier's network call is never in flight while the caller holds
\* the store's lock.
C2_PushOutsideLock == \A t \in Threads : At(t, "push") => lock # t

\* C3: an update_state call that raises leaves every store field as it was
\* before the call.
C3_AtomicOnFailure ==
  [][\A t \in Threads :
       (Ends(t) /\ last'.result = "raised") => StoreNow' = pre[t]]_vars

\* C4: an update_state call whose type is missing or unknown is rejected: it
\* raises to the caller and changes no store field, last_update included.
C4_UnknownKindRejected ==
  [][\A t \in Threads :
       (Ends(t) /\ TypeOf(cur[t]) \notin KnownTypes)
         => (last'.result = "raised" /\ StoreNow' = pre[t])]_vars

\* C5: once the calls the threads have made are all over, the store is the
\* one left by running them one at a time in the order they took the lock;
\* no trade is lost from total_trades and each log holds
\* min(capacity, appends) entries.
C5_Serializable ==
  Quiescent =>
    /\ StoreNow = StoreOf(serial)
    /\ ~overridden => performance_stats["total_trades"] = tradesIssued
    /\ loads = 0 => /\ Len(trading_history) = Min(MaxHistory, tradesIssued)
                    /\ Len(strategy_logs) = Min(MaxHistory, logsIssued)

C5_Witness ==
  /\ Quiescent
  /\ issued = MaxEvents
  /\ loads = 0 /\ ~overridden
  /\ tradesIssued >= 1
  /\ performance_stats["total_trades"] = tradesIssued
  /\ \E i, j \in 1..Len(strategy_logs) :
       strategy_logs[i].message = "t1" /\ strategy_logs[j].message = "t2"

\* C6: neither log ever holds more than MaxHistory entries, whatever
\* update_state and load_state calls were made, and an append to a full
\* trading history drops exactly its oldest entry in the same step.
C6_LogsBounded ==
  /\ [](Len(trading_history) <= MaxHistory /\ Len(strategy_logs) <= MaxHistory)
  /\ [][\A t \in Threads :
          (At(t, "dispatch") /\ pc'[t] = "total_read" /\ Len(trading_history) = MaxHistory)
            => trading_history' =
                 Append(Tail(trading_history), TradeRecord(clock, Data(t)))]_vars

C6_Witness ==
  /\ Len(trading_history) = MaxHistory
  /\ appended > MaxHistory
  /\ \E t \in Threads : At(t, "total_read")

\* C7: with only update_state calls made, get_trading_history(0) holds the
\* last min(MaxHistory, appended) trade records appended, oldest first.
C7_LastNInOrder ==
  loads = 0 =>
    LET h == get_trading_history(0) IN
      /\ Len(h) = Min(MaxHistory, appended)
      /\ \A i \in 1..Len(h) : h[i].n = appended - Len(h) + i

C7_Witness ==
  /\ Quiescent /\ loads = 0
  /\ appended = MaxHistory + 1
  /\ Len(get_trading_history(0)) = MaxHistory
  /\ get_trading_history(0)[1].n = 2

\* C8: once a positions update has returned, the stored risk metrics are the
\* recomputation from the stored positions whenever a reader can take the lock.
C8_RiskMatchesPositions ==
  (posUpdates > 0 /\ lock = NoThread) => risk_metrics = RiskOf(positions)

\* C9: no accessor ever returns while a call is partially applied (a trade
\* appended and not fully counted, positions replaced and risk not recomputed).
C9_NoPartialObserved == observed = {}

\* C10: when the delivery fails (a status other than 200, a connection error,
\* a timeout) update_state returns normally and the store is the one the
\* event leaves.
PushFailures == PushOutcomes \ {"200"}

C10_PushFailureSwallowed ==
  last.outcome \in PushFailures =>
    (last.result = "returned" /\ StoreNow = StoreOf(serial))

C10_Witness ==
  /\ last.outcome = "Timeout" /\ last.result = "returned"
  /\ appended = 1 /\ Len(trading_history) = 1
  /\ performance_stats["total_trades"] = 1

\* C11: the notifier never retries and never queues: a call posts at most
\* once, only in its own _push_to_webui step, and what it posts is its own
\* payload, whether or not an earlier call's delivery failed; no other step
\* delivers anything.
C11_NoRetryNoQueue ==
  /\ [](Len(pushed) <= 1)
  /\ [][\A t \in Threads :
          (At(t, "push") /\ pc'[t] = "idle")
            => (Len(pushed') = 1 /\ \A i \in 1..Len(pushed') : pushed'[i] = cur[t])]_vars
  /\ [][(pushed' # pushed)
          => (pushed' = << >> \/ \E t \in Threads : At(t, "push") /\ pc'[t] = "idle")]_vars

C11_Witness ==
  /\ issued = 2
  /\ last.outcome = "ConnectionError"
  /\ Len(pushed) = 1
  /\ TypeOf(pushed[1]) = "positions"

\* C12: when the payload is handed to the notifier the event's mutation, the
\* risk recomputation and the last_update stamp have all been applied; the
\* payload handed over is the argument of the call, once; a call that raised
\* hands over nothing.
C12_PushAfterApplied ==
  /\ [](\A t \in Threads :
          At(t, "push") => /\ ~serial.raised
                           /\ StoreNow = StoreOf(serial)
                           /\ system_status["last_update"] = clock - 1)
  /\ [][\A t \in Threads :
          Ends(t) => pushed' = IF At(t, "unwind") THEN << >> ELSE << cur[t] >>]_vars

C12_Witness ==
  \E t \in Threads :
    /\ At(t, "push")
    /\ TypeOf(cur[t]) = "positions" /\ Data(t) = [BTC |-> Info(300)]
    /\ positions = Data(t)
    /\ risk_metrics = RiskOf(Data(t))
    /\ system_status["last_update"] # NoTime

\* C13: every read and every write of a store field is made by the thread
\* that holds the lock; the strategy loop's read of total_runs or error_count
\* for the incremented counter is one of them.
C13_FieldAccessUnderLock ==
  [][\A t \in Threads :
       /\ (At(t, "idle") /\ pc'[t] = "counted") => lock = t
       /\ (pc[t] # "idle" /\ StoreNow' # StoreNow) => lock = t]_vars

\* C14: what a reader got from get_positions() keeps the value it had when
\* it was returned, nested entries included, whatever update_state calls are
\* made and whatever the writer does to a payload it passed afterwards.
C14_SnapshotImmune == held # NoRef => Deep(heap, held) = seen

\* C15: right after save_state, a new StateManager that loads the document
\* written has the fields of the store that was saved: every accessor
\* returns on it what it returns on the original.
C15_RoundTrip ==
  (last.result = "saved" /\ restored # NoPre) => restored = StoreNow

C15_Witness ==
  /\ last.result = "saved" /\ restored # NoPre
  /\ restored = StoreNow
  /\ Len(restored.trading_history) = 1
  /\ restored.performance_stats["total_trades"] = 1
  /\ restored.positions = [BTC |-> Info(300)]
  /\ restored.risk_metrics = RiskOf(restored.positions)

\* C16: load_state of a malformed file (no JSON, a top level that is no
\* object, a history that is no array) raises and leaves every field of the
\* store as it was before the call.
C16_MalformedRejected ==
  [][\A t \in Threads :
       (TypeOf(cur[t]) = "load_state" /\ Data(t) \in BadDocs /\ pc'[t] = "idle")
         => (last'.result = "raised" /\ StoreNow' = pre[t])]_vars

\* C17: a load_state call that returns leaves every field whose key the
\* document lacks as it was before the call, and sets the fields whose keys
\* are present from the document.
C17_AbsentKeysKept ==
  [][\A t \in Threads :
       (At(t, "exit") /\ pc'[t] = "idle")
         => \A k \in DOMAIN StoreNow :
              StoreNow'[k] = IF k \in DOMAIN Data(t)
                               THEN StoreOf(Whole_load_state(serial, Data(t)))[k]
                               ELSE pre[t][k]]_vars

\* C18: save_state and load_state are serialized with update_state by the
\* lock: the document written is the store as the whole calls made before it
\* leave it, and from the moment load_state has the lock until it returns no
\* other thread is inside a call and the fields are those its call found or
\* those it assigns.
C18_PersistSerialized ==
  /\ [][file' # file => StoreOf(file') = StoreOf(serial)]_vars
  /\ [](\A t \in Threads :
          pc[t] \in {"load", "exit"}
            => /\ lock = t
               /\ \A u \in Threads \ {t} : At(u, "idle")
               /\ At(t, "load") => StoreNow = pre[t]
               /\ At(t, "exit") => StoreNow = StoreOf(serial))

C18_Witness ==
  /\ file # NoFile
  /\ Len(file.trading_history) = 1
  /\ file.performance_stats["total_trades"] = 1
  /\ Len(trading_history) = 2
  /\ \E t \in Threads : At(t, "total_write")

\* The order came from the action of its symbol, and after scaling only the
\* maximum was applied to its quantity.
OnlyClampAfterScaling ==
  \A k \in 1..Len(orders) :
    LET action == trading_actions[orders[k].symbol]
        scaled == IF action.action = "BUY" THEN action.quantity_usdt * scale_factor.num
                  ELSE action.quantity_usdt * scale_factor.den
    IN  /\ orders[k].action = action.action
        /\ orders[k].quantity_usdt \in {scaled, max_single_trade * scale_factor.den}
        /\ orders[k].quantity_usdt <= scaled

\* C19: the BUY quantities passed on sum to at most 0.95 * usdt_balance, and
\* the maximum is the only step applied after scaling to a quantity passed on.
C19_BuyTotalWithinMargin ==
  /\ 20 * total_buy_amount(orders) <= 19 * usdt_balance * scale_factor.den
  /\ OnlyClampAfterScaling

\* C19 as amended: the BUY quantities passed on sum to at most usdt_balance,
\* and to at most 0.95 * usdt_balance when the BUY quantities requested sum
\* to more than usdt_balance; the maximum is the only step applied after
\* scaling.
C19_BuyTotalBounded ==
  /\ total_buy_amount(orders) <= usdt_balance * scale_factor.den
  /\ total_buy_amount(trading_actions) > usdt_balance
       => 20 * total_buy_amount(orders) <= 19 * usdt_balance * scale_factor.den
  /\ OnlyClampAfterScaling

C19_Witness ==
  /\ idx = Len(trading_actions) + 1
  /\ usdt_balance = 100
  /\ total_buy_amount(trading_actions) = 660
  /\ Len(orders) = 2
  /\ 20 * total_buy_amount(orders) = 19 * usdt_balance * scale_factor.den

\* C20: no order is passed on with a quantity below min_trade_amount, a BUY
\* whose scaled quantity falls below it included.
C20_NoOrderBelowMinimum ==
  \A k \in 1..Len(orders) :
    orders[k].quantity_usdt >= min_trade_amount * scale_factor.den

\* C21: with a balance of zero or less and BUY quantities requested that sum
\* to more than zero, no BUY is passed on, and none of a quantity of zero
\* or less goes on to place_market_order.
C21_NoBuyWithoutBalance ==
  (usdt_balance <= 0 /\ total_buy_amount(trading_actions) > 0) =>
    /\ \A k \in 1..Len(orders) : orders[k].action # "BUY"
    /\ \A k \in 1..Len(placed) :
         placed[k].action = "BUY" => placed[k].quantity_usdt > 0

\* The sum of the quantities of the actions at the positions S.
RECURSIVE SumAt(_, _)
SumAt(actions, S) ==
  IF S = {} THEN 0
  ELSE LET i == CHOOSE j \in S : TRUE
       IN  actions[i].quantity_usdt + SumAt(actions, S \ {i})

BuyTotal ==
  SumAt(trading_actions,
        {i \in 1..Len(trading_actions) :
           trading_actions[i].action = "BUY" /\ trading_actions[i].quantity_usdt > 0})

\* the factor is (usdt_balance / BuyTotal) * 0.95 when BuyTotal exceeds the
\* balance, else 1
ScaleAsStated ==
  IF BuyTotal > usdt_balance
  THEN scale_factor.num * BuyTotal * 20 = scale_factor.den * usdt_balance * 19
  ELSE scale_factor.num = scale_factor.den

\* a BUY passed on is its requested quantity times the factor, a SELL its
\* requested quantity, each of at most max_single_trade
ScaledAsStated ==
  \A k \in 1..Len(orders) :
    LET action == trading_actions[orders[k].symbol]
        factor == IF orders[k].action = "BUY" THEN scale_factor.num ELSE scale_factor.den
    IN  orders[k].quantity_usdt
          = Min(action.quantity_usdt * factor, max_single_trade * scale_factor.den)

\* C22: the factor is computed once for a list, from the sum of the positive
\* BUY quantities requested, as (usdt_balance / sum) * 0.95 when the sum
\* exceeds the balance and 1 otherwise; every BUY quantity is multiplied by
\* it and no SELL quantity is.
C22_ScaleOncePerList ==
  /\ []((idx >= 1 /\ Len(trading_actions) > 0) => ScaleAsStated)
  /\ []ScaledAsStated
  /\ [][idx >= 1 => scale_factor' = scale_factor]_vars

\* BUY 600 and BUY 500 with a balance of 800: the factor is 38/55 and the
\* quantities passed on are 600 * 38/55 and 500 * 38/55
C22_Witness ==
  /\ usdt_balance = 800
  /\ Len(trading_actions) = 2
  /\ trading_actions[1].action = "BUY" /\ trading_actions[1].quantity_usdt = 600
  /\ trading_actions[2].action = "BUY" /\ trading_actions[2].quantity_usdt = 500
  /\ scale_factor = [num |-> 38, den |-> 55]
  /\ Len(orders) = 2
  /\ orders[1].quantity_usdt = 600 * 38 /\ orders[2].quantity_usdt = 500 * 38

\* a BUY of 700 alone, with a balance of 1000, has been processed
LoneBuy700 ==
  /\ Len(trading_actions) = 1
  /\ trading_actions[1].action = "BUY" /\ trading_actions[1].quantity_usdt = 700
  /\ usdt_balance = 1000
  /\ idx = 2

\* C23: every order passed on, BUY or SELL, has a quantity of at most
\* max_single_trade; a BUY of 700 alone with a balance of 1000 is not scaled
\* and is passed on as 500.
C23_AtMostMaxSingleTrade ==
  /\ \A k \in 1..Len(orders) :
       /\ orders[k].action \in {"BUY", "SELL"}
       /\ orders[k].quantity_usdt <= max_single_trade * scale_factor.den
  /\ LoneBuy700 =>
       /\ scale_factor = [num |-> 1, den |-> 1]
       /\ Len(orders) = 1 /\ orders[1].action = "BUY" /\ orders[1].quantity_usdt = 500

C23_Witness ==
  /\ LoneBuy700
  /\ Len(orders) = 1 /\ orders[1].quantity_usdt = max_single_trade
  /\ Len(placed) = 1

\* The symbols (positions in the input list) of a sequence of orders rise
\* strictly: the sequence follows the input order and no action is in it twice.
InInputOrder(seq) ==
  \A k, l \in 1..Len(seq) : k < l => seq[k].symbol < seq[l].symbol

\* C24: the actions are processed in input order, one per pass; the orders
\* passed on, and those placed, are in input order, each from an action
\* already processed, and no action yields more than one order.
C24_InputOrderKept ==
  /\ [](/\ InInputOrder(orders) /\ InInputOrder(placed)
        /\ \A k \in 1..Len(orders) : orders[k].symbol < idx
        /\ \A k \in 1..Len(placed) : \E l \in 1..Len(orders) : orders[l] = placed[k])
  /\ [][idx >= 1 =>
          /\ idx' = idx + 1
          /\ \/ orders' = orders
             \/ /\ Len(orders') = Len(orders) + 1
                /\ SubSeq(orders', 1, Len(orders)) = orders
                /\ orders'[Len(orders')].symbol = idx]_vars

C24_Witness ==
  /\ idx = 3
  /\ Len(orders) = 2 /\ orders[1].symbol = 1 /\ orders[2].symbol = 2
  /\ Len(placed) = 2

\* C25: an action HOLD, or of a requested quantity of zero or less, yields no
\* order; an empty list and a list of HOLD actions only yield no order, and
\* the routine runs to its end on them.
C25_HoldAndNothingSkipped ==
  /\ \A k \in 1..Len(orders) :
       /\ trading_actions[orders[k].symbol].action # "HOLD"
       /\ trading_actions[orders[k].symbol].quantity_usdt > 0
  /\ (\A i \in 1..Len(trading_actions) : trading_actions[i].action = "HOLD")
       => orders = << >> /\ placed = << >>

C25_Witness ==
  /\ Len(trading_actions) = 2
  /\ trading_actions[1].action = "HOLD" /\ trading_actions[1].quantity_usdt = 600
  /\ trading_actions[2].action = "BUY" /\ trading_actions[2].quantity_usdt = -60
  /\ idx = 3
  /\ orders = << >>

\* total_exposure as stated, from a positions map
ExposureAsStated(p) ==
  LET total_value == SumUsd(p, DOMAIN p)
      usdt_reserve == IF "USDT" \in DOMAIN p THEN UsdValue(p["USDT"]) ELSE 0
  IN  IF total_value > 0 THEN Ratio(total_value - usdt_reserve, total_value) ELSE Zero

\* C26: after every positions update that returns, total_exposure is
\* (total_value - usdt_reserve) / total_value of the map of that update, in
\* [0, 1], when its total_value is above zero, and 0 otherwise.
C26_ExposureOfPositions ==
  [][\A t \in Threads :
       (Ends(t) /\ TypeOf(cur[t]) = "positions" /\ last'.result = "returned")
         => /\ risk_metrics'.total_exposure = ExposureAsStated(Data(t))
            /\ risk_metrics'.total_exposure.num >= 0
            /\ risk_metrics'.total_exposure.num <= risk_metrics'.total_exposure.den]_vars

\* the assets other than USDT whose usd_value is above zero
CountedAsStated(p) == {a \in (DOMAIN p) \ {"USDT"} : UsdValue(p[a]) > 0}

\* C27: after a positions update, position_count is the number of assets
\* other than USDT whose usd_value is above zero; one of usd_value 0 or
\* without usd_value is not counted.
C27_CountsPositiveOnly ==
  posUpdates > 0 => risk_metrics.position_count = Cardinality(CountedAsStated(positions))

\* got is the newest min(limit, length) entries of log, oldest first, for a
\* limit of one or more, and the log itself for a limit of 0
NewestOf(got, log, limit) ==
  IF limit = 0 THEN got = log
  ELSE /\ Len(got) = Min(limit, Len(log))
       /\ \A i \in 1..Len(got) : got[i] = log[Len(log) - Len(got) + i]

\* C28: for every limit of one or more, get_trading_history(limit) and
\* get_strategy_logs(limit) are the newest min(limit, length) entries of the
\* log in insertion order, and for limit 0 the whole log.
C28_NewestLimitEntries ==
  \A limit \in 0..(MaxHistory + 1) :
    /\ NewestOf(get_trading_history(limit), trading_history, limit)
    /\ NewestOf(get_strategy_logs(limit), strategy_logs, limit)

C28_Witness ==
  /\ Len(trading_history) = 2
  /\ trading_history[1] # trading_history[2]
  /\ get_trading_history(1) = << trading_history[2] >>
  /\ get_trading_history(0) = trading_history
  /\ Len(strategy_logs) >= 1

\* C29: get_trading_history and get_strategy_logs called without a limit
\* return the whole log, also when it holds more than 50 (trades) or 100
\* (logs) entries.
C29_NoLimitReturnsAll ==
  /\ returned.call = "get_trading_history" => returned.value = trading_history
  /\ returned.call = "get_strategy_logs" => returned.value = strategy_logs

\* C30: a system_status update sets the fields named in its delta and leaves
\* every other field of system_status but last_update, and positions,
\* predictions, both logs, performance_stats and risk_metrics, as they were
\* when the call began.
C30_StatusMergeOnly ==
  [][\A t \in Threads :
       (Ends(t) /\ TypeOf(cur[t]) = "system_status" /\ last'.result = "returned")
         => /\ DOMAIN system_status' = (DOMAIN pre[t].system_status) \cup (DOMAIN Data(t))
            /\ \A k \in (DOMAIN Data(t)) \ {"last_update"} : system_status'[k] = Data(t)[k]
            /\ \A k \in (DOMAIN pre[t].system_status) \ ((DOMAIN Data(t)) \cup {"last_update"}) :
                 system_status'[k] = pre[t].system_status[k]
            /\ positions' = pre[t].positions
            /\ predictions' = pre[t].predictions
            /\ trading_history' = pre[t].trading_history
            /\ strategy_logs' = pre[t].strategy_logs
            /\ performance_stats' = pre[t].performance_stats
            /\ risk_metrics' = pre[t].risk_metrics]_vars

\* status updates of is_running and of total_runs are over, the later one
\* having left the field of the earlier one as it was
C30_Witness ==
  /\ Quiescent /\ last.result = "returned" /\ loads = 0
  /\ system_status.is_running = TRUE /\ system_status.total_runs = 1
  /\ system_status.last_update = clock - 1
  /\ issued = 2

\* the counters a trade event leaves, from those before it
CountersAfterTrade(stats, trade_data) ==
  [k \in DOMAIN stats |->
     stats[k]
       + (IF k = "total_trades" THEN 1 ELSE 0)
       + (IF k = "successful_trades" /\ DictGet(trade_data, "status", "") = "success"
            THEN 1 ELSE 0)
       + (IF k = "failed_trades" /\ DictGet(trade_data, "status", "") # "success"
            THEN 1 ELSE 0)
       + (IF k = "total_volume" /\ "volume_usdt" \in DOMAIN trade_data
            THEN trade_data["volume_usdt"].v ELSE 0)]

\* C31: every trade_execution event that returns adds 1 to total_trades, 1 to
\* successful_trades (status "success") or else to failed_trades, and its
\* volume_usdt, when it has one, to total_volume, whatever the history holds
\* or has dropped.
C31_CountersIncremental ==
  [][\A t \in Threads :
       (Ends(t) /\ TypeOf(cur[t]) = "trade_execution" /\ last'.result = "returned")
         => performance_stats' = CountersAfterTrade(pre[t].performance_stats, Data(t))]_vars

\* one trade more than the history holds has been counted
C31_Witness ==
  /\ Quiescent /\ loads = 0 /\ ~overridden /\ last.result = "returned"
  /\ appended = MaxHistory + 1
  /\ Len(trading_history) = MaxHistory
  /\ performance_stats["total_trades"] = MaxHistory + 1
  /\ performance_stats["successful_trades"] + performance_stats["failed_trades"]
       = MaxHistory + 1
  /\ performance_stats["failed_trades"] >= 1
  /\ performance_stats["total_volume"] >= 100

\* From log to log2 every entry is kept as it was and where it was, but for
\* one entry appended at the end, the oldest dropped with it when the log
\* was full.
AppendOnly(log, log2) ==
  \/ log2 = log
  \/ /\ Len(log2) = Len(log) + 1
     /\ SubSeq(log2, 1, Len(log)) = log
  \/ /\ Len(log) = MaxHistory /\ Len(log2) = MaxHistory
     /\ SubSeq(log2, 1, MaxHistory - 1) = Tail(log)

\* a load_state call assigns the fields in this step
Loading == \E t \in Threads : At(t, "load") /\ pc'[t] # "load"

\* C32: no step of a store operation changes an entry of a log: an entry
\* stays as it was appended while it is in its log, and entries leave only
\* by the eviction of the oldest on an append to a full log.
C32_EntriesNeverChange ==
  [][/\ AppendOnly(trading_history, trading_history')
     /\ AppendOnly(strategy_logs, strategy_logs')]_vars

\* C32 as amended: the same of every step of update_state and the accessors;
\* load_state replaces a log by the last max_history entries of the file's
\* list, or by an empty log where the file has none: both logs when it
\* returns, and nothing else ever removes or changes an entry.
C32_EntriesChangeOnLoadOnly ==
  [][IF Loading
       THEN \E t \in Threads :
              LET trades == DequeOf(DictGet(Data(t), "trading_history", << >>))
                  logs == DequeOf(DictGet(Data(t), "strategy_logs", << >>))
              IN  /\ At(t, "load")
                  /\ trading_history' \in {trading_history, trades}
                  /\ strategy_logs' \in {strategy_logs, logs}
                  /\ pc'[t] = "exit" => trading_history' = trades /\ strategy_logs' = logs
       ELSE /\ AppendOnly(trading_history, trading_history')
            /\ AppendOnly(strategy_logs, strategy_logs')]_vars

\* a trade appended to the full log a load left: the file's oldest entry kept
\* is gone, its newest is first, as loaded, and the trade is last
C32_Witness ==
  /\ Quiescent /\ loads = 1 /\ appended = 1
  /\ Len(trading_history) = MaxHistory
  /\ trading_history[1] = FileTrades[MaxHistory + 1]
  /\ trading_history[MaxHistory].timestamp # NoTime

\* the BUY quantities passed on, summed, in units of 1/scale_factor.den USDT
BuyPassedOn == SumAt(orders, {k \in 1..Len(orders) : orders[k].action = "BUY"})

\* C33: for every list of actions and every balance of zero or more, the BUY
\* quantities passed on sum to at most the balance read at line 247.
C33_BuyWithinBalance == BuyPassedOn <= usdt_balance * scale_factor.den

\* two BUY of 500 against a balance of 1000: all of the balance is passed on
C33_Witness ==
  /\ usdt_balance = 1000 /\ idx = 3
  /\ Len(orders) = 2
  /\ BuyPassedOn = usdt_balance * scale_factor.den

\* C34: once the update_state calls made, of whatever kinds, are over,
\* total_trades = successful_trades + failed_trades.
C34_TradeCountsAddUp ==
  (Quiescent /\ loads = 0) =>
    performance_stats["total_trades"]
      = performance_stats["successful_trades"] + performance_stats["failed_trades"]

\* C35: an event the endpoint receives is applied once to the dashboard's
\* store and makes no POST of its own: the POSTs made in the system are as
\* many as the update_state calls of the strategy, and the events applied
\* are no more.
C35_NoForwardingLoop ==
  /\ dash.posts = dash.calls
  /\ dash.applied <= dash.calls

\* C36: get_state_manager gives the same instance on every call, first calls
\* made at the same time by several threads included: one instance at most
\* is ever made.
C36_OneInstance ==
  /\ single.made <= 1
  /\ Cardinality(single.given) <= 1

\* C37: a run of run_hourly_strategy ends in one of two ways and nothing is
\* raised to its caller: when no step raised, total_runs is one more than at
\* the start of the run and error_count is what it was; when a step raised,
\* error_count is one more and total_runs is what it was. Between runs
\* total_runs + error_count is the number of runs made.
C37_RunCountedOnce ==
  /\ [][run.at # "idle" /\ run'.at = "idle" =>
         /\ ~run'.escaped
         /\ IF run.step_raised \/ run.at = "except"
            THEN /\ system_status'["error_count"] = run.before[2] + 1
                 /\ system_status'["total_runs"] = run.before[1]
            ELSE /\ system_status'["total_runs"] = run.before[1] + 1
                 /\ system_status'["error_count"] = run.before[2]]_vars
  /\ [](run.at = "idle" =>
          system_status["total_runs"] + system_status["error_count"] = run.cycles)

\* runs of both kinds have ended: one counted as a run, one as an error
C37_Witness ==
  /\ run.at = "idle"
  /\ system_status["total_runs"] >= 1
  /\ system_status["error_count"] >= 1

PlacedAs(placing) == { k \in 1..Len(walk.placements) : walk.placements[k].placing = placing }

\* C39: a BUY goes to place_market_order only when the balance read again
\* just before is at least its amount; one trade record is written for each
\* call of place_market_order, with status success exactly when the call
\* returned an order, and none for an action that was skipped.
C39_OneRecordPerOrder ==
  /\ \A k \in 1..Len(walk.placements) :
       LET p == walk.placements[k] IN
         p.order.action = "BUY" => p.balance * walk.scale.den >= p.order.quantity_usdt
  /\ performance_stats["total_trades"] = Len(walk.placements)
  /\ performance_stats["successful_trades"] = Cardinality(PlacedAs("order"))
  /\ performance_stats["failed_trades"] = Cardinality(PlacedAs("None"))

\* 2 ** n
RECURSIVE TwoTo(_)
TwoTo(n) == IF n = 0 THEN 1 ELSE 2 * TwoTo(n - 1)

\* C40: a call of _call_api makes at most max_retries requests, makes none
\* after a 200, and returns None after the last failed one; the wait before
\* its k-th retry is retry_delay * 2 ** (k - 1) seconds, 2 then 4, whatever
\* the calls before it met.
C40_SameWaitsEveryCall ==
  /\ api.requests <= max_retries
  /\ api.result = "None" => api.requests = max_retries
  /\ Len(api.waits) <= max_retries - 1
  /\ \A k \in 1..Len(api.waits) : api.waits[k] = retry_delay * TwoTo(k - 1)

====
